---- MODULE Spec2Model ----
(***************************************************************************)
(* uGFX operating-system abstraction: the GTIMER software timer engine     *)
(* (src/src/gtimer/gtimer_rules.h) and the cooperative scheduler of GOS    *)
(* (src/unnamed/part_000).                                                 *)
(***************************************************************************)
EXTENDS Integers, Sequences, FiniteSets, TLC

(***************************************************************************)
(* Bounds of the model.                                                    *)
(***************************************************************************)
NTimers == 3
MaxRecs == 2
MaxOps == 3
MaxListOps == 5
MaxFires == 2
TickBits == 3
NThreads == 2
MaxVal == 2
MaxDelay == 1
MaxTicks == 1
MaxSchedOps == 8

(***************************************************************************)
(* Program constants.                                                      *)
(***************************************************************************)
GTIMER_FLG_PERIODIC == "PERIODIC"
GTIMER_FLG_INFINITE == "INFINITE"
GTIMER_FLG_JABBED == "JABBED"
GTIMER_FLG_SCHEDULED == "SCHEDULED"
TIME_IMMEDIATE == 0
NULL == 0
FLG_THD_ALLOC == "ALLOC"
FLG_THD_MAIN == "MAIN"
FLG_THD_DEAD == "DEAD"
FLG_THD_WAIT == "WAIT"
MainThread == 1

Timers == 1..NTimers

\* Context 1 is mainthread; the others are the storage blocks of created contexts.
Threads == 1..(NThreads + 1)
\* What a thread function returns, and what freed storage may hold instead.
Values == 1..MaxVal
Garbage == 0..MaxVal

VARIABLES
    \* ---- platform
    wrap,           \* the tick counter counts modulo wrap (systemticks_t width)
    boot,           \* the tick count when the engine is first used
    lim,            \* what the environment does: [wrap, recs, ops, ticks, boot, delays, fail, fires,
                    \* slowcb, sops]
    now,            \* gfxSystemTicks()
    \* ---- GTimer records
    tfn,            \* pt->fn (the callback of record r is named by a record id)
    when,           \* pt->when
    period,         \* pt->period
    flags,          \* pt->flags, a set of GTIMER_FLG_*
    next,           \* pt->next
    prev,           \* pt->prev
    \* ---- gtimer statics
    pTimerHead,
    nxtTimeout,
    lastTime,
    mutex,          \* "free" or the context holding it
    hThread,        \* 0 or the worker's handle
    waitsem,        \* count of the bump semaphore (limit 1)
    \* ---- GTimerThreadHandler
    wpc,            \* "none", "wait", "enter", "scan", "call", "callback"
    wtimeout,       \* ticks left of the gfxSemWait in progress
    tm,             \* local tm
    pt,             \* local pt (the record whose callback was taken)
    fn,             \* local fn
    \* ---- observation
    ops,            \* API calls made so far
    fires,          \* callback invocations of a record since its last gtimerStart
    cbStop,         \* "in": stopped by its own callback, still running; "done": that callback returned
    armed           \* how the record was last started, "no" once gtimerStop was called on it

env == <<wrap, boot, lim>>

VARIABLES
    \* ---- the cooperative scheduler
    current,        \* the running context, NULL once gfxExit was called
    readyQ,         \* contexts in resume order
    deadQ,          \* exited contexts whose storage gfxYield frees
    thflags,        \* t->flags, a set of FLG_THD_*
    thparam,        \* t->param: the argument, then the exit value
    heap,           \* the storage of a context: "none", "static", "live", "freed"
    waitfor,        \* the handle a context is inside gfxThreadWait for, or NULL
    \* ---- observation
    joined,         \* handles gfxThreadWait was called on
    exitval,        \* the value a context passed to gfxThreadExit
    frees,          \* gfxFree calls on the storage of a context
    uaf,            \* a field of a context was accessed after its storage was freed
    waitres,        \* the last gfxThreadWait that returned: <<caller, handle, value>>
    thret,          \* what the last gfxThreadCreate returned: a handle or NULL
    sops            \* scheduler steps made so far

sched == <<current, readyQ, deadQ, thflags, thparam, heap, waitfor, joined, exitval,
           frees, uaf, waitres, thret, sops>>

VARIABLES
    \* ---- an application: contexts that count under a mutex of their own
    counter,        \* the shared counter
    cmutex,         \* the context inside the application's mutex, or NULL
    tpc,            \* where the thread function of a context is
    treg            \* the value of the counter a context has read

app == <<counter, cmutex, tpc, treg>>

tvars == <<env, now, tfn, when, period, flags, next, prev, pTimerHead, nxtTimeout,
           lastTime, mutex, hThread, waitsem, wpc, wtimeout, tm, pt, fn, ops, fires,
           cbStop, armed>>

vars == <<tvars, sched, app>>

(***************************************************************************)
(* Tick arithmetic: systemticks_t and delaytime_t are unsigned.            *)
(***************************************************************************)
TIME_INFINITE == wrap - 1

Add(a, b) == (a + b) % wrap
Sub(a, b) == (a + wrap - b) % wrap
Mul(a, b) == (a * b) % wrap

\* The window test without the case of a wrapped counter.
TimeIsWithin_NoWrap(x, start, end) == x >= start /\ x <= end

TimeIsWithin(x, start, end) ==
    \/ (end >= start /\ x >= start /\ x <= end)
    \/ (end < start /\ (x >= start \/ x <= end))

gfxMillisecondsToTicks(ms) == ms % wrap

gtimerIsActive(r) == GTIMER_FLG_SCHEDULED \in flags[r]

(***************************************************************************)
(* The circular list.                                                      *)
(***************************************************************************)
\* The records met by following next from pTimerHead, until the walk is
\* back at pTimerHead or has made more steps than there are records.
RECURSIVE Walk(_, _)
Walk(p, n) ==
    IF p = NULL \/ n = 0 THEN <<>>
    ELSE IF next[p] = pTimerHead THEN <<p>>
    ELSE <<p>> \o Walk(next[p], n - 1)

List == IF pTimerHead = NULL THEN <<>> ELSE Walk(pTimerHead, NTimers + 1)
InList(r) == \E i \in 1..Len(List) : List[i] = r

\* "Cancel it!" of gtimerStart and "get us off the timers list" of the scan:
\* the list is taken to hold one record when pt->next == pt->prev.
UnlinkByPrev(r) ==
    IF next[r] = prev[r]
    THEN [n |-> next, p |-> prev, h |-> NULL]
    ELSE LET p1 == [prev EXCEPT ![next[r]] = prev[r]]
             n1 == [next EXCEPT ![p1[r]] = next[r]]
         IN  [n |-> n1, p |-> p1, h |-> IF pTimerHead = r THEN n1[r] ELSE pTimerHead]

\* "Cancel it!" of gtimerStop: the list holds one record when pt->next == pt.
UnlinkBySelf(r) ==
    IF next[r] = r
    THEN [n |-> next, p |-> prev, h |-> NULL]
    ELSE LET p1 == [prev EXCEPT ![next[r]] = prev[r]]
             n1 == [next EXCEPT ![p1[r]] = next[r]]
         IN  [n |-> n1, p |-> p1, h |-> IF pTimerHead = r THEN n1[r] ELSE pTimerHead]

\* "Just pop it on the end of the queue", on the links l.
LinkAtTail(r, l) ==
    IF l.h # NULL
    THEN LET n1 == [l.n EXCEPT ![r] = l.h]
             p1 == [l.p EXCEPT ![r] = l.p[l.h]]
             n2 == [n1 EXCEPT ![p1[r]] = r]
             p2 == [p1 EXCEPT ![n2[r]] = r]
         IN  [n |-> n2, p |-> p2, h |-> l.h]
    ELSE [n |-> [l.n EXCEPT ![r] = r], p |-> [l.p EXCEPT ![r] = r], h |-> r]

(***************************************************************************)
(* The API, called by an application context or by a running callback.     *)
(***************************************************************************)
Callers == {"app", "callback"}
Delays == lim.delays

\* The caller runs, and gfxMutexEnter would not block it.
CanEnter(c) == (c = "callback" => wpc = "callback") /\ mutex = "free"
CanCall(c) == (c = "callback" => wpc = "callback") /\ ops < lim.ops

\* Records are interchangeable: they are first started in the order 1, 2, ...
InOrder(r) == IF r = 1 THEN TRUE ELSE tfn[r - 1] # NULL

\* The records the application uses.
Records == 1..lim.recs

BUMP_BUMP == IF waitsem < 1 THEN 1 ELSE waitsem

\* hThread keeping the dummy value when gfxThreadCreate fails.
StartThread_KeepDummy(created) == 1

\* "Start our thread if not already going": hThread after the call, created
\* telling whether gfxThreadCreate, if called, returns a handle.
StartThread(created) == IF hThread = 0 /\ ~created THEN 0 ELSE 1

gtimerStart(c, r, periodic, millisec, created) ==
    /\ CanCall(c) /\ CanEnter(c)
    /\ InOrder(r)
    /\ created \/ lim.fail
    /\ hThread' = StartThread(created)
    /\ wpc' = IF hThread = 0 /\ created THEN "wait" ELSE wpc
    /\ wtimeout' = IF hThread = 0 /\ created THEN nxtTimeout ELSE wtimeout
    /\ LET l0 == IF GTIMER_FLG_SCHEDULED \in flags[r]
                 THEN UnlinkByPrev(r)
                 ELSE [n |-> next, p |-> prev, h |-> pTimerHead]
           l1 == LinkAtTail(r, l0)
           f  == {GTIMER_FLG_SCHEDULED}
                 \cup (IF periodic THEN {GTIMER_FLG_PERIODIC} ELSE {})
                 \cup (IF millisec = TIME_INFINITE THEN {GTIMER_FLG_INFINITE} ELSE {})
       IN  /\ tfn' = [tfn EXCEPT ![r] = r]
           /\ flags' = [flags EXCEPT ![r] = f]
           /\ period' = [period EXCEPT ![r] =
                  IF millisec = TIME_INFINITE THEN TIME_INFINITE
                  ELSE gfxMillisecondsToTicks(millisec)]
           /\ when' = [when EXCEPT ![r] =
                  IF millisec = TIME_INFINITE THEN @
                  ELSE Add(now, gfxMillisecondsToTicks(millisec))]
           /\ next' = l1.n /\ prev' = l1.p /\ pTimerHead' = l1.h
           /\ waitsem' = IF millisec = TIME_INFINITE THEN waitsem ELSE BUMP_BUMP
    /\ ops' = ops + 1
    /\ fires' = [fires EXCEPT ![r] = 0]
    /\ cbStop' = [cbStop EXCEPT ![r] = "no"]
    /\ armed' = [armed EXCEPT ![r] = IF periodic THEN "periodic" ELSE "oneshot"]
    /\ UNCHANGED <<app, sched, env, now, nxtTimeout, lastTime, mutex, tm, pt, fn>>

gtimerStop(c, r) ==
    /\ CanCall(c) /\ CanEnter(c)
    /\ IF GTIMER_FLG_SCHEDULED \in flags[r]
       THEN LET l == UnlinkBySelf(r)
            IN  /\ next' = l.n /\ prev' = l.p /\ pTimerHead' = l.h
                /\ flags' = [flags EXCEPT ![r] = {}]
       ELSE UNCHANGED <<next, prev, pTimerHead, flags>>
    /\ ops' = ops + 1
    /\ cbStop' = IF c = "callback" /\ pt = r THEN [cbStop EXCEPT ![r] = "in"] ELSE cbStop
    /\ armed' = [armed EXCEPT ![r] = "no"]
    /\ UNCHANGED <<app, sched, env, now, tfn, when, period, nxtTimeout, lastTime, mutex, hThread,
                   waitsem, wpc, wtimeout, tm, pt, fn, fires>>

gtimerJab(c, r) ==
    /\ CanCall(c) /\ CanEnter(c)
    /\ flags' = [flags EXCEPT ![r] = @ \cup {GTIMER_FLG_JABBED}]
    /\ waitsem' = BUMP_BUMP
    /\ ops' = ops + 1
    /\ UNCHANGED <<app, sched, env, now, tfn, when, period, next, prev, pTimerHead, nxtTimeout,
                   lastTime, mutex, hThread, wpc, wtimeout, tm, pt, fn, fires, cbStop, armed>>

\* The interrupt-level variant takes no mutex.
gtimerJabI(r) ==
    /\ ops < lim.ops
    /\ flags' = [flags EXCEPT ![r] = @ \cup {GTIMER_FLG_JABBED}]
    /\ waitsem' = BUMP_BUMP
    /\ ops' = ops + 1
    /\ UNCHANGED <<app, sched, env, now, tfn, when, period, next, prev, pTimerHead, nxtTimeout,
                   lastTime, mutex, hThread, wpc, wtimeout, tm, pt, fn, fires, cbStop, armed>>

(***************************************************************************)
(* GTimerThreadHandler.                                                    *)
(***************************************************************************)
\* "Has this timer expired or been jabbed?"
IsDue(p) ==
    \/ GTIMER_FLG_JABBED \in flags[p]
    \/ (GTIMER_FLG_INFINITE \notin flags[p] /\ TimeIsWithin(when[p], lastTime, tm))

\* "Find when we next need to wake up"
NextWake(p, nt) ==
    IF GTIMER_FLG_INFINITE \notin flags[p] /\ Sub(when[p], tm) < nt
    THEN Sub(when[p], tm) ELSE nt

\* The do-while over the list from record p with nxtTimeout nt: it ends at
\* the first due record, or back at pTimerHead; a walk that meets more
\* records than exist never comes back to pTimerHead.
RECURSIVE ScanFrom(_, _, _)
ScanFrom(p, nt, n) ==
    IF p = NULL \/ n = 0 THEN [kind |-> "hung", pt |-> NULL, nxt |-> nt]
    ELSE IF IsDue(p) THEN [kind |-> "due", pt |-> p, nxt |-> nt]
    ELSE IF next[p] = pTimerHead THEN [kind |-> "done", pt |-> NULL, nxt |-> NextWake(p, nt)]
    ELSE ScanFrom(next[p], NextWake(p, nt), n - 1)

ScanList ==
    IF pTimerHead = NULL THEN [kind |-> "done", pt |-> NULL, nxt |-> TIME_INFINITE]
    ELSE ScanFrom(pTimerHead, TIME_INFINITE, NTimers + 1)

\* The advance with the quotient rounded up.
PeriodicAdvance_Ceil(p) ==
    Add(when[p], Mul((Sub(Add(tm, period[p]), when[p]) + period[p] - 1) \div period[p], period[p]))

\* "We may have skipped a period."
PeriodicAdvance(p) ==
    Add(when[p], Mul(Sub(Add(tm, period[p]), when[p]) \div period[p], period[p]))

\* Every due record taken as a one-shot.
IsPeriodic_Never(p) == FALSE

\* "Is this timer periodic?"
IsPeriodic(p) == GTIMER_FLG_PERIODIC \in flags[p] /\ period[p] # TIME_IMMEDIATE

\* The worker leaving the mutex without releasing it.
MUTEX_EXIT_Held == "worker"

\* MUTEX_EXIT(): gfxMutexExit(&mutex), before fn(param) is called and at the
\* end of a scan.
MUTEX_EXIT == "free"

\* gfxSemWait returns: the semaphore was signalled or the timeout ran out.
WorkerWake ==
    /\ wpc = "wait"
    /\ waitsem > 0 \/ wtimeout = 0
    /\ waitsem' = IF waitsem > 0 THEN waitsem - 1 ELSE waitsem
    /\ wpc' = "enter"
    /\ wtimeout' = 0
    /\ UNCHANGED <<app, sched, env, now, tfn, when, period, flags, next, prev, pTimerHead,
                   nxtTimeout, lastTime, mutex, hThread, tm, pt, fn, ops,
                   fires, cbStop, armed>>

\* restartTimerChecks: MUTEX_ENTER, the time and the default next timeout.
WorkerEnter ==
    /\ wpc = "enter"
    /\ mutex = "free"
    /\ mutex' = "worker"
    /\ tm' = now
    /\ nxtTimeout' = TIME_INFINITE
    /\ wpc' = "scan"
    /\ UNCHANGED <<app, sched, env, now, tfn, when, period, flags, next, prev, pTimerHead,
                   lastTime, hThread, waitsem, wtimeout, pt, fn, ops, fires, cbStop, armed>>

\* The scan finds a due record: re-arm or unlink it, save fn and param and
\* leave the mutex; the callback is called next.
WorkerFire ==
    /\ wpc = "scan"
    /\ ScanList.kind = "due"
    /\ LET p == ScanList.pt
       IN  /\ IF IsPeriodic(p)
              THEN /\ when' = IF GTIMER_FLG_INFINITE \notin flags[p]
                              THEN [when EXCEPT ![p] = PeriodicAdvance(p)]
                              ELSE when
                   /\ flags' = [flags EXCEPT ![p] = @ \ {GTIMER_FLG_JABBED}]
                   /\ UNCHANGED <<next, prev, pTimerHead>>
              ELSE LET l == UnlinkByPrev(p)
                   IN  /\ next' = l.n /\ prev' = l.p /\ pTimerHead' = l.h
                       /\ flags' = [flags EXCEPT ![p] = {}]
                       /\ when' = when
           /\ pt' = p
           /\ fn' = tfn[p]
           /\ fires' = [fires EXCEPT ![p] = IF @ < lim.fires THEN @ + 1 ELSE @]
    /\ nxtTimeout' = TIME_INFINITE
    /\ mutex' = MUTEX_EXIT
    /\ wpc' = "call"
    /\ UNCHANGED <<app, sched, env, now, tfn, period, lastTime, hThread, waitsem, wtimeout, tm,
                   ops, cbStop, armed>>

\* fn(param) is called, outside the mutex, with the fn and param saved.
WorkerCall ==
    /\ wpc = "call"
    /\ wpc' = "callback"
    /\ UNCHANGED <<app, sched, env, now, tfn, when, period, flags, next, prev, pTimerHead,
                   nxtTimeout, lastTime, mutex, hThread, waitsem, wtimeout, tm, pt, fn,
                   ops, fires, cbStop, armed>>

\* The scan ends with nothing due: "Ready for the next loop", then the
\* worker waits on the semaphore for nxtTimeout.
WorkerIdle ==
    /\ wpc = "scan"
    /\ ScanList.kind = "done"
    /\ nxtTimeout' = ScanList.nxt
    /\ lastTime' = tm
    /\ mutex' = MUTEX_EXIT
    /\ wpc' = "wait"
    /\ wtimeout' = ScanList.nxt
    /\ tm' = 0
    /\ UNCHANGED <<app, sched, env, now, tfn, when, period, flags, next, prev, pTimerHead,
                   hThread, waitsem, pt, fn, ops, fires, cbStop, armed>>

\* The walk never returns to pTimerHead: the worker loops in the do-while,
\* holding the mutex, and takes no further step.
WorkerHung == wpc = "scan" /\ ScanList.kind = "hung"

\* fn(param) returns: "start again!"
WorkerCallbackReturn ==
    /\ wpc = "callback"
    /\ wpc' = "enter"
    /\ tm' = 0 /\ pt' = NULL /\ fn' = NULL
    /\ cbStop' = [r \in Timers |-> IF cbStop[r] = "in" THEN "done" ELSE cbStop[r]]
    /\ UNCHANGED <<app, sched, env, now, tfn, when, period, flags, next, prev, pTimerHead,
                   nxtTimeout, lastTime, mutex, hThread, waitsem, wtimeout,
                   ops, fires, armed>>

(***************************************************************************)
(* Time.  The worker runs as soon as it can: a tick passes only while it   *)
(* is blocked in gfxSemWait, inside a callback, or does not exist.         *)
(***************************************************************************)
WorkerRunnable ==
    \/ wpc \in {"enter", "scan", "call"}
    \/ (wpc = "callback" /\ ~lim.slowcb)
    \/ (wpc = "wait" /\ (waitsem > 0 \/ wtimeout = 0))

Tick ==
    /\ ~WorkerRunnable
    /\ Sub(now, boot) < lim.ticks
    /\ now' = Add(now, 1)
    /\ wtimeout' = IF wpc = "wait" /\ wtimeout # TIME_INFINITE THEN wtimeout - 1
                   ELSE wtimeout
    /\ UNCHANGED <<app, sched, env, tfn, when, period, flags, next, prev, pTimerHead, nxtTimeout,
                   lastTime, mutex, hThread, waitsem, wpc, tm, pt, fn, ops, fires,
                   cbStop, armed>>

(***************************************************************************)
(* The cooperative scheduler.                                              *)
(***************************************************************************)
Qadd(q, t) == Append(q, t)
Qhead(q) == IF q = <<>> THEN NULL ELSE Head(q)
Qrest(q) == IF q = <<>> THEN <<>> ELSE Tail(q)
InQ(q, t) == \E i \in 1..Len(q) : q[i] = t

\* The state after _gosThreadsInit.
InitThreads ==
    /\ current = MainThread
    /\ readyQ = <<>>
    /\ deadQ = <<>>
    /\ thflags = [t \in Threads |-> IF t = MainThread THEN {FLG_THD_MAIN} ELSE {}]
    /\ thparam = [t \in Threads |-> 0]
    /\ heap = [t \in Threads |-> IF t = MainThread THEN "static" ELSE "none"]
    /\ waitfor = [t \in Threads |-> NULL]
    /\ joined = {}
    /\ exitval = [t \in Threads |-> 0]
    /\ frees = [t \in Threads |-> 0]
    /\ uaf = FALSE
    /\ waitres = <<>>
    /\ thret = NULL
    /\ sops = 0
    /\ counter = 0
    /\ cmutex = NULL
    /\ tpc = [t \in Threads |-> "enter"]
    /\ treg = [t \in Threads |-> 0]

\* The scheduler takes one more step, within the budget of the environment;
\* a negative budget is no budget: the steps are not counted.
SchedStep ==
    IF lim.sops < 0
    THEN sops' = sops
    ELSE sops < lim.sops /\ sops' = sops + 1

\* The current context runs application code (it is not inside gfxThreadWait).
Running(c) == c # NULL /\ c = current /\ waitfor[c] = NULL

\* gfxFree on every context of the dead queue, as gfxYield does.
FreeAll(h, q) == [t \in Threads |-> IF InQ(q, t) THEN "freed" ELSE h[t]]
CountFrees(f, q) ==
    [t \in Threads |-> f[t] + Cardinality({i \in 1..Len(q) : q[i] = t})]

\* gfxYield putting the caller at the head of the ready queue.
gfxYield_Front(c, h, f, u) ==
    LET q == <<c>> \o readyQ
    IN  /\ heap' = FreeAll(h, deadQ)
        /\ frees' = CountFrees(f, deadQ)
        /\ uaf' = (u \/ \E t \in Threads : InQ(deadQ, t) /\ h[t] = "freed")
        /\ deadQ' = <<>>
        /\ current' = Qhead(q)
        /\ readyQ' = Qrest(q)

\* gfxYield leaving the dead queue as it is.
gfxYield_NoDrain(c, h, f, u) ==
    LET q == Qadd(readyQ, c)
    IN  /\ heap' = h
        /\ frees' = f
        /\ uaf' = u
        /\ deadQ' = deadQ
        /\ current' = Qhead(q)
        /\ readyQ' = Qrest(q)

\* gfxYield of context c, with the heap h, the free counts f and the
\* use-after-free mark u as found.
gfxYield(c, h, f, u) ==
    LET q == Qadd(readyQ, c)
    IN  /\ heap' = FreeAll(h, deadQ)
        /\ frees' = CountFrees(f, deadQ)
        /\ uaf' = (u \/ \E t \in Threads : InQ(deadQ, t) /\ h[t] = "freed")
        /\ deadQ' = <<>>
        /\ current' = Qhead(q)
        /\ readyQ' = Qrest(q)

ThreadYield ==
    /\ SchedStep
    /\ Running(current)
    /\ gfxYield(current, heap, frees, uaf)
    /\ UNCHANGED <<thflags, thparam, waitfor, joined, exitval, waitres, thret>>
    /\ UNCHANGED <<tvars, app>>

\* gfxThreadExit putting every exiting context on the dead queue.
gfxThreadExit_Always(ret) ==
    /\ SchedStep
    /\ Running(current)
    /\ thparam' = [thparam EXCEPT ![current] = ret]
    /\ thflags' = [thflags EXCEPT ![current] = @ \cup {FLG_THD_DEAD}]
    /\ exitval' = [exitval EXCEPT ![current] = ret]
    /\ deadQ' = Qadd(deadQ, current)
    /\ current' = Qhead(readyQ)
    /\ readyQ' = Qrest(readyQ)
    /\ UNCHANGED <<heap, waitfor, joined, frees, uaf, waitres, thret>>
    /\ UNCHANGED <<tvars, app>>

\* gfxThreadExit resuming the exiting context itself when nothing is ready.
gfxThreadExit_Resume(ret) ==
    /\ SchedStep
    /\ Running(current)
    /\ thparam' = [thparam EXCEPT ![current] = ret]
    /\ thflags' = [thflags EXCEPT ![current] = @ \cup {FLG_THD_DEAD}]
    /\ exitval' = [exitval EXCEPT ![current] = ret]
    /\ deadQ' = IF thflags[current] \cap {FLG_THD_ALLOC, FLG_THD_WAIT} = {FLG_THD_ALLOC}
                THEN Qadd(deadQ, current) ELSE deadQ
    /\ current' = IF readyQ = <<>> THEN current ELSE Qhead(readyQ)
    /\ readyQ' = Qrest(readyQ)
    /\ UNCHANGED <<heap, waitfor, joined, frees, uaf, waitres, thret>>
    /\ UNCHANGED <<tvars, app>>

\* gfxThreadExit(ret) in the current context: the thread function of a created
\* context returned ret, or the application called it; with nothing ready
\* gfxExit ends the program (current = NULL).
gfxThreadExit(ret) ==
    /\ SchedStep
    /\ Running(current)
    /\ thparam' = [thparam EXCEPT ![current] = ret]
    /\ thflags' = [thflags EXCEPT ![current] = @ \cup {FLG_THD_DEAD}]
    /\ exitval' = [exitval EXCEPT ![current] = ret]
    /\ deadQ' = IF thflags[current] \cap {FLG_THD_ALLOC, FLG_THD_WAIT} = {FLG_THD_ALLOC}
                THEN Qadd(deadQ, current) ELSE deadQ
    /\ current' = Qhead(readyQ)
    /\ readyQ' = Qrest(readyQ)
    /\ UNCHANGED <<heap, waitfor, joined, frees, uaf, waitres, thret>>
    /\ UNCHANGED <<tvars, app>>

\* The storage block a new context gets.
NewBlock == CHOOSE t \in Threads : heap[t] = "none" /\ \A u \in Threads : heap[u] = "none" => t <= u

\* What gfxAlloc may return: unused storage, or storage that was freed.
NewBlocks ==
    {t \in Threads : heap[t] = "freed"}
        \cup (IF \E t \in Threads : heap[t] = "none" THEN {NewBlock} ELSE {})

\* gfxThreadCreate switching to the new context at once, the caller queued.
gfxThreadCreate_RunNow(stackarea, big) ==
    /\ SchedStep
    /\ Running(current)
    /\ Len(readyQ) < NThreads
    /\ LET alloc == ~stackarea \/ ~big
       IN  \E t \in (IF alloc THEN NewBlocks ELSE {u \in NewBlocks : heap[u] = "none"}) :
              /\ thflags' = [thflags EXCEPT ![t] = IF alloc THEN {FLG_THD_ALLOC} ELSE {}]
              /\ heap' = [heap EXCEPT ![t] = IF alloc THEN "live" ELSE "static"]
              /\ thparam' = [thparam EXCEPT ![t] = 0]
              /\ readyQ' = Qadd(readyQ, current)
              /\ current' = t
              /\ joined' = joined \ {t}
              /\ exitval' = [exitval EXCEPT ![t] = 0]
              /\ frees' = [frees EXCEPT ![t] = 0]
              /\ waitres' = IF waitres # <<>> /\ waitres[2] = t THEN <<>> ELSE waitres
              /\ thret' = t
    /\ UNCHANGED <<deadQ, waitfor, uaf>>
    /\ UNCHANGED <<tvars, app>>

\* stackarea: the caller supplies a buffer; big: stacksz is at least the
\* minimum, otherwise the stack is allocated whatever the caller supplied.
gfxThreadCreate(stackarea, big) ==
    /\ SchedStep
    /\ Running(current)
    /\ Len(readyQ) < NThreads
    /\ LET alloc == ~stackarea \/ ~big
       IN  \E t \in (IF alloc THEN NewBlocks ELSE {u \in NewBlocks : heap[u] = "none"}) :
              /\ thflags' = [thflags EXCEPT ![t] = IF alloc THEN {FLG_THD_ALLOC} ELSE {}]
              /\ heap' = [heap EXCEPT ![t] = IF alloc THEN "live" ELSE "static"]
              /\ thparam' = [thparam EXCEPT ![t] = 0]
              /\ readyQ' = Qadd(readyQ, t)
              /\ joined' = joined \ {t}
              /\ exitval' = [exitval EXCEPT ![t] = 0]
              /\ frees' = [frees EXCEPT ![t] = 0]
              /\ waitres' = IF waitres # <<>> /\ waitres[2] = t THEN <<>> ELSE waitres
              /\ thret' = t
    /\ UNCHANGED <<current, deadQ, waitfor, uaf>>
    /\ UNCHANGED <<tvars, app>>

\* A failed allocation queued all the same: the handle of unused storage.
gfxThreadCreateFails_Queued(stackarea, big) ==
    /\ SchedStep
    /\ Running(current)
    /\ lim.fail
    /\ ~stackarea \/ ~big
    /\ thret' = NULL
    /\ readyQ' = Qadd(readyQ, NewBlock)
    /\ UNCHANGED <<current, deadQ, thflags, thparam, heap, waitfor, joined, exitval,
                   frees, uaf, waitres>>
    /\ UNCHANGED <<tvars, app>>

\* gfxThreadCreate when gfxAlloc has no memory left: `if (!t) return 0;`.
gfxThreadCreateFails(stackarea, big) ==
    /\ SchedStep
    /\ Running(current)
    /\ lim.fail
    /\ ~stackarea \/ ~big
    /\ thret' = NULL
    /\ UNCHANGED <<current, readyQ, deadQ, thflags, thparam, heap, waitfor, joined, exitval,
                   frees, uaf, waitres>>
    /\ UNCHANGED <<tvars, app>>

\* What a read of a flag of context t gives: freed storage may hold anything.
ReadFlag(t, f) == IF heap[t] = "freed" THEN BOOLEAN ELSE {f \in thflags[t]}

\* The while loop of gfxThreadWait(t) in context c, th being the flags of the
\* contexts at the test: yield while t is not dead, then unmark, free and
\* return the status.
WaitLoop(c, t, th, u) ==
    \E dead \in ReadFlag(t, FLG_THD_DEAD) :
        IF ~dead
        THEN /\ gfxYield(c, heap, frees, u \/ heap[t] = "freed")
             /\ waitfor' = [waitfor EXCEPT ![c] = t]
             /\ thflags' = th
             /\ UNCHANGED <<thparam, exitval, waitres, thret>>
        ELSE \E alloc \in ReadFlag(t, FLG_THD_ALLOC) :
                LET h == IF alloc THEN [heap EXCEPT ![t] = "freed"] ELSE heap
                IN  /\ thflags' = [th EXCEPT ![t] = @ \ {FLG_THD_WAIT}]
                    /\ heap' = h
                    /\ frees' = IF alloc THEN [frees EXCEPT ![t] = @ + 1] ELSE frees
                    /\ uaf' = (u \/ h[t] = "freed")
                    /\ \E v \in (IF h[t] = "freed" THEN Garbage ELSE {thparam[t]}) :
                          waitres' = <<c, t, v>>
                    /\ waitfor' = [waitfor EXCEPT ![c] = NULL]
                    /\ UNCHANGED <<current, readyQ, deadQ, thparam, exitval, thret>>

\* gfxThreadWait without the test for the caller's own handle.
gfxThreadWait_NoSelfTest(t) ==
    /\ SchedStep
    /\ Running(current)
    /\ heap[t] # "none"
    /\ t = current \/ t \notin joined
    /\ joined' = joined \cup {t}
    /\ WaitLoop(current, t, [thflags EXCEPT ![t] = @ \cup {FLG_THD_WAIT}], uaf)
    /\ UNCHANGED <<tvars, app>>

\* gfxThreadWait(t) called by the current context, on its own handle or on a
\* handle nobody has waited on yet.
gfxThreadWait(t) ==
    /\ SchedStep
    /\ Running(current)
    /\ heap[t] # "none"
    /\ t = current \/ t \notin joined
    /\ IF t = current
       THEN /\ waitres' = <<current, t, -1>>
            /\ UNCHANGED <<current, readyQ, deadQ, thflags, thparam, heap, waitfor,
                           joined, exitval, frees, uaf, thret>>
       ELSE /\ joined' = joined \cup {t}
            /\ WaitLoop(current, t,
                        [thflags EXCEPT ![t] = @ \cup {FLG_THD_WAIT}], uaf)
    /\ UNCHANGED <<tvars, app>>

\* gfxYield returns inside gfxThreadWait: the loop tests again.
ThreadWaitResume ==
    /\ SchedStep
    /\ current # NULL
    /\ waitfor[current] # NULL
    /\ WaitLoop(current, waitfor[current], thflags, uaf)
    /\ UNCHANGED joined
    /\ UNCHANGED <<tvars, app>>

(***************************************************************************)
(* The timer engine.                                                       *)
(***************************************************************************)
\* The state after _gtimerInit, in an environment bounded by l.
InitEngine(l) ==
    /\ wrap = l.wrap
    /\ lim = l
    /\ boot = l.boot
    /\ now = boot
    /\ tfn = [r \in Timers |-> NULL]
    /\ when = [r \in Timers |-> 0]
    /\ period = [r \in Timers |-> 0]
    /\ flags = [r \in Timers |-> {}]
    /\ next = [r \in Timers |-> NULL]
    /\ prev = [r \in Timers |-> NULL]
    /\ pTimerHead = NULL
    /\ nxtTimeout = l.wrap - 1
    /\ lastTime = 0
    /\ mutex = "free"
    /\ hThread = 0
    /\ waitsem = 0
    /\ wpc = "none"
    /\ wtimeout = 0
    /\ tm = 0
    /\ pt = NULL
    /\ fn = NULL
    /\ ops = 0
    /\ fires = [r \in Timers |-> 0]
    /\ cbStop = [r \in Timers |-> "no"]
    /\ armed = [r \in Timers |-> "no"]
    /\ InitThreads

Init ==
    InitEngine([wrap |-> 2 ^ TickBits, recs |-> MaxRecs, ops |-> MaxOps, ticks |-> MaxTicks, boot |-> 0,
                delays |-> {TIME_IMMEDIATE, MaxDelay, 2 ^ TickBits - 1},
                fail |-> FALSE, fires |-> MaxFires, slowcb |-> TRUE, sops |-> 0])

Next ==
    \/ \E c \in Callers, r \in Records, periodic \in BOOLEAN, ms \in Delays,
          created \in BOOLEAN :
            gtimerStart(c, r, periodic, ms, created)
    \/ \E c \in Callers, r \in Records : gtimerStop(c, r)
    \/ \E c \in Callers, r \in Records : gtimerJab(c, r)
    \/ \E r \in Records : gtimerJabI(r)
    \/ WorkerWake
    \/ WorkerEnter
    \/ WorkerFire
    \/ WorkerCall
    \/ WorkerIdle
    \/ WorkerCallbackReturn
    \/ Tick

Spec == Init /\ [][Next]_vars

(***************************************************************************)
(* The list under longer sequences of calls, with time standing still:     *)
(* records are started with TIME_IMMEDIATE or TIME_INFINITE only.          *)
(***************************************************************************)
InitList ==
    InitEngine([wrap |-> 2 ^ TickBits, recs |-> NTimers, ops |-> MaxListOps, ticks |-> 0, boot |-> 0,
                delays |-> {TIME_IMMEDIATE, 2 ^ TickBits - 1}, fail |-> FALSE, fires |-> MaxFires, slowcb |-> TRUE, sops |-> 0])

NextList ==
    \/ \E c \in Callers, r \in Records, periodic \in BOOLEAN, ms \in Delays :
            gtimerStart(c, r, periodic, ms, TRUE)
    \/ \E c \in Callers, r \in Records : gtimerStop(c, r)
    \/ \E c \in Callers, r \in Records : gtimerJab(c, r)
    \/ WorkerWake
    \/ WorkerEnter
    \/ WorkerFire
    \/ WorkerCall
    \/ WorkerIdle
    \/ WorkerCallbackReturn

SpecList == InitList /\ [][NextList]_vars

(***************************************************************************)
(* The scheduler alone (the timer engine is never started).                *)
(***************************************************************************)
InitSched ==
    InitEngine([wrap |-> 2 ^ TickBits, recs |-> 0, ops |-> 0, ticks |-> 0, boot |-> 0,
                delays |-> {}, fail |-> TRUE, fires |-> 0, slowcb |-> FALSE,
                sops |-> MaxSchedOps])

NextSched ==
    \/ \E stackarea \in BOOLEAN, big \in BOOLEAN : gfxThreadCreate(stackarea, big)
    \/ \E stackarea \in BOOLEAN, big \in BOOLEAN : gfxThreadCreateFails(stackarea, big)
    \/ ThreadYield
    \/ \E ret \in Values : gfxThreadExit(ret)
    \/ \E t \in Threads : gfxThreadWait(t)
    \/ ThreadWaitResume

SpecSched == InitSched /\ [][NextSched]_vars

(***************************************************************************)
(* The list invariants of the timer records.                               *)
(***************************************************************************)
Scheduled == {r \in Timers : GTIMER_FLG_SCHEDULED \in flags[r]}
Listed == {r \in Timers : InList(r)}

\* A call has returned: nobody is inside the mutex.
Quiescent == mutex = "free"

\* C1: whenever a call has returned, a record is reachable from pTimerHead
\* through next links if and only if its GTIMER_FLG_SCHEDULED flag is set, and
\* the number of scheduled records equals the list length.
C1_ScheduledIffListed ==
    Quiescent => /\ Listed = Scheduled
                 /\ Cardinality(Scheduled) = Len(List)

\* The walk from pTimerHead along next returns to pTimerHead having met each
\* member once, and the members' links are mutually consistent.
Circular ==
    /\ Len(List) <= NTimers
    /\ \A i, j \in 1..Len(List) : i # j => List[i] # List[j]
    /\ \A i \in 1..Len(List) :
          /\ next[List[i]] # NULL /\ prev[List[i]] # NULL
          /\ prev[next[List[i]]] = List[i]
          /\ next[prev[List[i]]] = List[i]
    /\ next[List[Len(List)]] = pTimerHead

\* C2: the timer list is either empty or circular and doubly linked, and the
\* scan walk terminates.
C2_EmptyOrCircular ==
    /\ Quiescent => (pTimerHead = NULL \/ Circular)
    /\ ~WorkerHung

\* C3: while a timer callback executes, the worker does not hold the list
\* mutex (so the callback can itself enter it).
C3_NoMutexInCallback == wpc = "callback" => mutex # "worker"

C3_Witness ==
    /\ wpc = "callback"
    /\ ops > 0
    /\ cbStop[pt] = "in"

(***************************************************************************)
(* Timer A periodic with period 10 and timer B one-shot with delay 25,     *)
(* both started at tick 0 (of a 6-bit tick counter, counted from several   *)
(* absolute tick values); the callbacks take no time.                      *)
(***************************************************************************)
InitScenario ==
    \E b \in {0, 8, 16} :
        InitEngine([wrap |-> 64, recs |-> 2, ops |-> 2, ticks |-> 35, boot |-> b,
                    delays |-> {10, 25}, fail |-> FALSE, fires |-> 4,
                    slowcb |-> FALSE, sops |-> 0])

NextScenario ==
    \/ ops = 0 /\ gtimerStart("app", 1, TRUE, 10, TRUE)
    \/ ops = 1 /\ gtimerStart("app", 2, FALSE, 25, TRUE)
    \/ WorkerWake
    \/ WorkerEnter
    \/ WorkerFire
    \/ WorkerCall
    \/ WorkerIdle
    \/ WorkerCallbackReturn
    \/ ops = 2 /\ Tick

SpecScenario == InitScenario /\ [][NextScenario]_vars

(***************************************************************************)
(* Firing.                                                                 *)
(***************************************************************************)
\* The worker is blocked in gfxSemWait with nothing to wake it yet.
WorkerAsleep == wpc = "wait" /\ ~WorkerRunnable

\* Tick w is the current tick or lies in the recent past.
Passed(w) == Sub(now, w) < wrap \div 2

\* C4: a one-shot timer started with a finite delay and neither stopped nor
\* restarted has its callback invoked exactly once: never twice, inactive from
\* the invocation on, and invoked by the time the worker sleeps again after
\* the delay has run out.
C4_OneShotFiresOnce ==
    \A r \in Timers :
        (armed[r] = "oneshot" /\ period[r] # TIME_INFINITE) =>
            /\ fires[r] <= 1
            /\ (fires[r] = 1 => ~gtimerIsActive(r))
            /\ (WorkerAsleep /\ Passed(when[r]) => fires[r] = 1)

\* C5: in the scenario, by the scan at tick 31, A has fired three times and B
\* once, A is still active and in the list, and B is inactive.
C5_ScenarioAtTick31 ==
    (ops = 2 /\ Sub(now, boot) = 31 /\ WorkerAsleep) =>
        /\ fires[1] = 3
        /\ fires[2] = 1
        /\ gtimerIsActive(1) /\ InList(1)
        /\ ~gtimerIsActive(2)

\* C8: when a callback that called gtimerStop on its own record returns, the
\* record is out of the list with its scheduled flag clear and every scheduled
\* record is in the list; and the record's callback is not invoked again
\* before a gtimerStart on it.
C8_StopInOwnCallback ==
    [][\A r \in Timers :
          /\ (WorkerCallbackReturn /\ cbStop[r] = "in") =>
                /\ ~InList(r)'
                /\ GTIMER_FLG_SCHEDULED \notin flags'[r]
                /\ Scheduled' = Listed'
          /\ (WorkerFire /\ pt' = r) => cbStop[r] # "done"]_vars

\* C9: a jab on a scheduled TIME_INFINITE record is served by the next scan
\* (no scan ends with such a record still jabbed), a TIME_INFINITE record fires
\* only when jabbed, and the firing leaves a one-shot record unlinked with its
\* flags clear and a periodic record in the list with only the jab cleared.
C9_JabFiresOnce ==
    [][\A r \in Timers :
          /\ WorkerIdle =>
                ~({GTIMER_FLG_SCHEDULED, GTIMER_FLG_INFINITE, GTIMER_FLG_JABBED}
                    \subseteq flags[r])
          /\ (WorkerFire /\ pt' = r /\ GTIMER_FLG_INFINITE \in flags[r]) =>
                /\ GTIMER_FLG_JABBED \in flags[r]
                /\ IF GTIMER_FLG_PERIODIC \in flags[r]
                   THEN flags'[r] = flags[r] \ {GTIMER_FLG_JABBED} /\ InList(r)'
                   ELSE flags'[r] = {} /\ ~InList(r)']_vars

\* The sequence s without r.
Without(s, r) == LET keep(x) == x # r IN SelectSeq(s, keep)

\* C10: gtimerStart on a scheduled record leaves it once in the list, at the
\* tail, and every other record that was in the list stays in it, in the same
\* relative order, with its flags, wake time and period unchanged.
C10_RestartKeepsOthers ==
    [][\A r \in Timers :
          (GTIMER_FLG_SCHEDULED \in flags[r]
           /\ \E c \in Callers, periodic \in BOOLEAN, ms \in Delays :
                  gtimerStart(c, r, periodic, ms, TRUE)) =>
              /\ Len(SelectSeq(List', LAMBDA x : x = r)) = 1
              /\ prev'[pTimerHead'] = r
              /\ Without(List', r) = Without(List, r)
              /\ \A x \in Timers \ {r} :
                    /\ flags'[x] = flags[x]
                    /\ when'[x] = when[x]
                    /\ period'[x] = period[x]]_vars

(***************************************************************************)
(* Contexts: exit status and storage.                                      *)
(***************************************************************************)
\* C6: gfxThreadWait(h) returns exactly the value h's context passed to
\* gfxThreadExit, in every scheduling order.
C6_WaitReturnsExitValue ==
    (waitres # <<>> /\ waitres[1] # waitres[2]) => waitres[3] = exitval[waitres[2]]

\* C7: the storage of a context is freed at most once (by gfxYield draining
\* the dead queue or by gfxThreadWait, never both), only if it was allocated
\* by the library, and no field of a context is accessed after the free.
C7_FreedOnceNeverUsedAfter ==
    /\ ~uaf
    /\ \A t \in Threads :
          /\ frees[t] <= 1
          /\ (frees[t] > 0 => FLG_THD_ALLOC \in thflags[t])

(***************************************************************************)
(* gtimerStop.                                                             *)
(***************************************************************************)
\* C11: gtimerStop on a scheduled record takes exactly that record out of the
\* list and clears its flags, every other record keeping its membership, its
\* place relative to the others and its fields; gtimerStop on a record that is
\* not scheduled changes neither the list, pTimerHead nor any record.
C11_StopRemovesOnlyIt ==
    [][\A r \in Timers :
          (\E c \in Callers : gtimerStop(c, r)) =>
              IF GTIMER_FLG_SCHEDULED \in flags[r]
              THEN /\ ~InList(r)'
                   /\ flags'[r] = {}
                   /\ Without(List', r) = Without(List, r)
                   /\ \A x \in Timers \ {r} :
                         /\ flags'[x] = flags[x]
                         /\ when'[x] = when[x]
                         /\ period'[x] = period[x]
                         /\ tfn'[x] = tfn[x]
              ELSE UNCHANGED <<next, prev, pTimerHead, flags, when, period, tfn>>]_vars

(***************************************************************************)
(* Periodic records.                                                       *)
(***************************************************************************)
\* C12 (as stated): the firing of a record started with periodic = true leaves
\* it scheduled and in the list, whatever its delay, TIME_IMMEDIATE included.
C12_PeriodicAnyDelay ==
    [][\A r \in Timers :
          (WorkerFire /\ pt' = r /\ GTIMER_FLG_PERIODIC \in flags[r]) =>
              /\ gtimerIsActive(r)'
              /\ InList(r)']_vars

\* C12 (amended): the firing of a periodic record whose period is not
\* TIME_IMMEDIATE leaves it scheduled, periodic and in the list, and only
\* gtimerStop clears the scheduled flag of such a record; the firing of any
\* other record (one-shot, or periodic with a TIME_IMMEDIATE period) clears
\* its flags.
C12_PeriodicStaysScheduled ==
    [][\A r \in Timers :
          /\ (WorkerFire /\ pt' = r) =>
                IF GTIMER_FLG_PERIODIC \in flags[r] /\ period[r] # TIME_IMMEDIATE
                THEN /\ {GTIMER_FLG_SCHEDULED, GTIMER_FLG_PERIODIC} \subseteq flags'[r]
                     /\ InList(r)'
                ELSE flags'[r] = {}
          /\ (/\ GTIMER_FLG_PERIODIC \in flags[r]
              /\ period[r] # TIME_IMMEDIATE
              /\ gtimerIsActive(r)
              /\ ~gtimerIsActive(r)') => \E c \in Callers : gtimerStop(c, r)]_vars

\* A periodic record is in its callback for the second time since it was
\* started, still scheduled.
C12_Witness ==
    /\ wpc = "callback"
    /\ armed[pt] = "periodic"
    /\ period[pt] # TIME_IMMEDIATE
    /\ fires[pt] = 2
    /\ gtimerIsActive(pt)

\* C13: in the scenario, periodic timer A (period 10, started at tick 0 and
\* never stopped) has fired at least k times whenever the worker sleeps at a
\* tick of k * 10 or later, whatever timer B did in the meantime.
C13_PeriodicKeepsFiring ==
    (ops = 2 /\ WorkerAsleep) => fires[1] >= Sub(now, boot) \div 10

(***************************************************************************)
(* The ready queue.                                                        *)
(***************************************************************************)
\* The step switches contexts: gfxYield (called by the application or by the
\* loop of gfxThreadWait) or gfxThreadExit.
Switched ==
    \/ ThreadYield
    \/ \E ret \in Values : gfxThreadExit(ret)
    \/ /\ ThreadWaitResume \/ \E t \in Threads : gfxThreadWait(t)
       /\ waitfor'[current] # NULL

\* C14: contexts resume in FIFO order.  A switch resumes the head of the ready
\* queue and moves every other queued context one place forward, a context
\* that enters the queue (the yielding one, a created one) enters at the tail,
\* and a step that does not switch leaves the queued contexts where they are:
\* the n contexts ahead of a queued context are resumed by the next n switches
\* and it is resumed by the one after, never overtaken.
C14_ResumeInFifoOrder ==
    [][IF Switched
       THEN /\ \A i \in 1..Len(readyQ) :
                  IF i = 1 THEN current' = readyQ[1]
                  ELSE Len(readyQ') >= i - 1 /\ readyQ'[i - 1] = readyQ[i]
            /\ Len(readyQ') <= Len(readyQ)
            /\ Len(readyQ') >= Len(readyQ) - 1
       ELSE /\ \A i \in 1..Len(readyQ) :
                  Len(readyQ') >= i /\ readyQ'[i] = readyQ[i]
            /\ Len(readyQ') <= Len(readyQ) + 1]_vars

\* The third context, created behind the second, runs after two switches.
C14_Witness ==
    /\ current = 3
    /\ readyQ = <<MainThread, 2>>
    /\ sops = 4

\* C15: between scheduler operations (until gfxExit ends the program) exactly
\* one context is current, it is in neither the ready queue nor the dead queue,
\* no context is twice in the ready queue and none is in both queues.
C15_OneCurrentNoDuplicates ==
    current # NULL =>
        /\ current \in Threads
        /\ ~InQ(readyQ, current)
        /\ ~InQ(deadQ, current)
        /\ \A i, j \in 1..Len(readyQ) : i # j => readyQ[i] # readyQ[j]
        /\ \A t \in Threads : ~(InQ(readyQ, t) /\ InQ(deadQ, t))

\* C16: a context that has called gfxThreadExit (FLG_THD_DEAD is set) is not in
\* the ready queue and is not the current context, ever after.
C16_DeadNeverResumed ==
    \A t \in Threads :
        FLG_THD_DEAD \in thflags[t] => (~InQ(readyQ, t) /\ current # t)

\* C17: gfxThreadExit adds the exiting context to the dead queue if and only
\* if it is library-allocated and not awaited at that moment; the main context
\* and the contexts on caller-supplied storage are never in the dead queue and
\* their storage is never passed to gfxFree.
C17_DeadQueueOnlyUnawaitedAlloc ==
    [][/\ \A ret \in Values :
             gfxThreadExit(ret) =>
                 deadQ' = IF /\ FLG_THD_ALLOC \in thflags[current]
                             /\ FLG_THD_WAIT \notin thflags[current]
                          THEN Append(deadQ, current)
                          ELSE deadQ
       /\ \A t \in Threads :
             heap[t] = "static" =>
                 /\ heap'[t] = "static"
                 /\ ~InQ(deadQ', t)
                 /\ frees'[t] = 0]_vars

\* A context on caller-supplied storage has exited and an unawaited
\* library-allocated one is on the dead queue.
C17_Witness ==
    \E t, u \in Threads :
        /\ heap[t] = "static" /\ FLG_THD_DEAD \in thflags[t]
        /\ heap[u] = "live" /\ InQ(deadQ, u)

(***************************************************************************)
(* gtimerStop against a scan in progress.                                  *)
(***************************************************************************)
\* C18: once gtimerStop(r) has returned, no invocation of r's callback begins
\* unless gtimerStart(r) is called again, in every interleaving of the call
\* with the worker's scan.
C18_NoCallbackAfterStop ==
    [][\A r \in Timers : (WorkerCall /\ pt = r) => armed[r] # "no"]_vars

(***************************************************************************)
(* The list mutex.                                                         *)
(***************************************************************************)
\* C19: the flags and links of the records and pTimerHead are accessed only
\* by the context holding the list mutex: while the worker holds it (from
\* MUTEX_ENTER to MUTEX_EXIT of a scan) no step other than the worker's own
\* changes them.
C19_AccessUnderMutex ==
    [][(mutex = "worker" /\ <<flags, next, prev, pTimerHead>>' # <<flags, next, prev, pTimerHead>>)
          => WorkerFire]_vars

(***************************************************************************)
(* One record with finite delays, the engine first used at any value of    *)
(* the tick counter.  Fewer ticks pass than half the counter's range, so   *)
(* Sub(x, boot) is the number of ticks from the first use to tick x.       *)
(***************************************************************************)
InitWrap ==
    \E b \in 0..(2 ^ TickBits - 1) :
        InitEngine([wrap |-> 2 ^ TickBits, recs |-> 1, ops |-> MaxOps, ticks |-> MaxTicks + 1,
                    boot |-> b, delays |-> {MaxDelay, MaxDelay + 1}, fail |-> FALSE,
                    fires |-> MaxFires, slowcb |-> TRUE, sops |-> 0])

SpecWrap == InitWrap /\ [][Next]_vars

\* C20: a finite record that is not jabbed is never fired early: the scan that
\* takes its callback runs at a tick at or after the record's wake time, also
\* when the tick counter wraps between the start and the scan.
C20_NeverEarly ==
    [][\A r \in Timers :
          (/\ WorkerFire
           /\ pt' = r
           /\ GTIMER_FLG_INFINITE \notin flags[r]
           /\ GTIMER_FLG_JABBED \notin flags[r]) =>
              Sub(tm, boot) >= Sub(when[r], boot)]_vars

(***************************************************************************)
(* gfxThreadCreate, gfxThreadWait and gfxThreadExit.                       *)
(***************************************************************************)
\* C21: a gfxThreadCreate that succeeds leaves the current context running,
\* keeps the contexts of the ready queue in their places and puts the new
\* context (on storage not in use before the call) behind them at the tail;
\* the current context changes only by a switch, so the new context's function
\* starts only when a later switch finds it at the head of the ready queue.
C21_CreateAppendsAndReturns ==
    [][/\ (\E stackarea \in BOOLEAN, big \in BOOLEAN : gfxThreadCreate(stackarea, big)) =>
             /\ current' = current
             /\ Len(readyQ') = Len(readyQ) + 1
             /\ SubSeq(readyQ', 1, Len(readyQ)) = readyQ
             /\ heap[readyQ'[Len(readyQ')]] \in {"none", "freed"}
             /\ heap'[readyQ'[Len(readyQ')]] \in {"live", "static"}
       /\ current' # current => Switched]_vars

\* A third context was created behind one already queued and the creator has
\* gone on to make one more call.
C21_Witness ==
    /\ current = MainThread
    /\ readyQ = <<2, 3>>
    /\ waitres # <<>>

\* C22: gfxThreadWait on the handle of the current context returns -1 at
\* once: the caller is still the current context and not inside a wait, and
\* the flags of every context, the ready queue and the dead queue are as
\* before.
C22_WaitOnSelfIsError ==
    [][(gfxThreadWait(current) /\ current # NULL) =>
          /\ waitres' = <<current, current, -1>>
          /\ current' = current
          /\ waitfor' = waitfor
          /\ thflags' = thflags
          /\ readyQ' = readyQ
          /\ deadQ' = deadQ]_vars

\* A context that another context is waiting for has waited on itself.
C22_Witness ==
    /\ current = 2
    /\ waitres = <<2, 2, -1>>
    /\ waitfor[MainThread] = 2
    /\ FLG_THD_WAIT \in thflags[2]

\* C23: gfxThreadExit called while the ready queue is empty ends the program
\* through gfxExit and no context runs from then on (nothing changes any
\* more); in every other case it resumes the head of the ready queue.
C23_ExitWithNothingReadyHalts ==
    [][/\ \A ret \in Values :
             gfxThreadExit(ret) =>
                 IF readyQ = <<>>
                 THEN current' = NULL /\ readyQ' = <<>>
                 ELSE current' = Head(readyQ) /\ readyQ' = Tail(readyQ)
       /\ current # NULL]_vars

\* The program has ended: a created context exited after the main context had.
C23_Witness ==
    /\ current = NULL
    /\ FLG_THD_DEAD \in thflags[MainThread]
    /\ FLG_THD_DEAD \in thflags[2]

\* C24: when the allocation fails gfxThreadCreate returns null and the ready
\* queue, the dead queue, the current context and every context are as
\* before; a call that succeeds returns the handle it queued.
C24_CreateFailureChangesNothing ==
    [][/\ (\E stackarea \in BOOLEAN, big \in BOOLEAN : gfxThreadCreateFails(stackarea, big)) =>
             /\ thret' = NULL
             /\ UNCHANGED <<current, readyQ, deadQ, thflags, thparam, heap>>
       /\ (\E stackarea \in BOOLEAN, big \in BOOLEAN : gfxThreadCreate(stackarea, big)) =>
             /\ thret' # NULL
             /\ readyQ' = Append(readyQ, thret')]_vars

\* A gfxThreadCreate has failed after one had succeeded, the first context
\* still waiting in the ready queue.
C24_Witness ==
    /\ thret = NULL
    /\ sops = 2
    /\ readyQ = <<2>>
    /\ current = MainThread

(***************************************************************************)
(* The main context creates NThreads library-allocated contexts and then   *)
(* waits for each of them in turn.  Each created context enters the        *)
(* application's mutex, increments the counter (a read and a write),       *)
(* leaves the mutex and returns; it may call gfxYield anywhere.            *)
(***************************************************************************)
InitCounter ==
    InitEngine([wrap |-> 2 ^ TickBits, recs |-> 0, ops |-> 0, ticks |-> 0, boot |-> 0,
                delays |-> {}, fail |-> FALSE, fires |-> 0, slowcb |-> FALSE,
                sops |-> MaxSchedOps + 4])

Created == Threads \ {MainThread}
AllCreated == \A t \in Created : heap[t] # "none"

\* The thread function runs in the current context.
InThread(t) == t = current /\ t # MainThread /\ Running(t)

AppStep(t) == InThread(t) /\ UNCHANGED <<tvars, sched>>

CounterCreate ==
    /\ current = MainThread
    /\ ~AllCreated
    /\ gfxThreadCreate(FALSE, TRUE)

\* The main context waits for the created contexts in the order of creation.
CounterWait ==
    /\ current = MainThread
    /\ AllCreated
    /\ \E t \in Created \ joined :
          /\ \A u \in Created \ joined : t <= u
          /\ gfxThreadWait(t)

\* gfxMutexEnter finds the mutex free.
CounterEnter(t) ==
    /\ AppStep(t)
    /\ tpc[t] = "enter" /\ cmutex = NULL
    /\ cmutex' = t
    /\ tpc' = [tpc EXCEPT ![t] = "read"]
    /\ UNCHANGED <<counter, treg>>

\* gfxMutexEnter finds the mutex taken: the caller yields and tries again.
CounterContend(t) ==
    /\ InThread(t)
    /\ tpc[t] = "enter" /\ cmutex # NULL
    /\ ThreadYield

CounterRead(t) ==
    /\ AppStep(t)
    /\ tpc[t] = "read"
    /\ treg' = [treg EXCEPT ![t] = counter]
    /\ tpc' = [tpc EXCEPT ![t] = "write"]
    /\ UNCHANGED <<counter, cmutex>>

CounterWrite(t) ==
    /\ AppStep(t)
    /\ tpc[t] = "write"
    /\ counter' = treg[t] + 1
    /\ tpc' = [tpc EXCEPT ![t] = "exit"]
    /\ UNCHANGED <<cmutex, treg>>

\* gfxMutexExit.
CounterExit(t) ==
    /\ AppStep(t)
    /\ tpc[t] = "exit"
    /\ cmutex' = NULL
    /\ tpc' = [tpc EXCEPT ![t] = "return"]
    /\ UNCHANGED <<counter, treg>>

\* The thread function returns: gfxThreadCreate passes its result to gfxThreadExit.
CounterReturn(t) ==
    /\ InThread(t)
    /\ tpc[t] = "return"
    /\ gfxThreadExit(1)

\* A gfxYield of the thread function's own, anywhere but in gfxMutexEnter.
CounterYield(t) ==
    /\ InThread(t)
    /\ tpc[t] # "enter" \/ cmutex = NULL
    /\ ThreadYield

NextCounter ==
    \/ CounterCreate
    \/ CounterWait
    \/ ThreadWaitResume
    \/ \E t \in Created : CounterEnter(t)
    \/ \E t \in Created : CounterContend(t)
    \/ \E t \in Created : CounterRead(t)
    \/ \E t \in Created : CounterWrite(t)
    \/ \E t \in Created : CounterExit(t)
    \/ \E t \in Created : CounterReturn(t)
    \/ \E t \in Created : CounterYield(t)

SpecCounter == InitCounter /\ [][NextCounter]_vars

\* Every gfxThreadWait of the main context has returned.
CounterDone ==
    /\ AllCreated
    /\ joined = Created
    /\ current = MainThread
    /\ waitfor[MainThread] = NULL

\* A context is inside gfxThreadWait(t), the test of t's dead flag can come
\* out false, and t will not run again: the loop need not end.
WaitsForever(c) ==
    LET t == waitfor[c]
    IN  /\ t # NULL
        /\ FALSE \in ReadFlag(t, FLG_THD_DEAD)
        /\ t # current
        /\ ~InQ(readyQ, t)

\* C25: in the counting program the waits of the main context all return,
\* whatever the order in which the contexts ran and yielded (no wait is left
\* looping for a context that cannot run), and once they have returned the
\* counter equals the number of contexts created.
C25_CounterExactlyN ==
    /\ CounterDone => counter = NThreads
    /\ \A c \in Threads : ~WaitsForever(c)

(***************************************************************************)
(* The scan of one periodic record, from any wake time, period, time of    *)
(* the last scan and current tick: the worker has just been woken.         *)
(***************************************************************************)
InitAdvance ==
    \E w \in 0..(2 ^ TickBits - 1), P \in 1..(2 ^ TickBits - 2),
       L \in 0..(2 ^ TickBits - 1), n \in 0..(2 ^ TickBits - 1), jabbed \in BOOLEAN :
        /\ wrap = 2 ^ TickBits
        /\ lim = [wrap |-> 2 ^ TickBits, recs |-> 1, ops |-> 1, ticks |-> MaxTicks, boot |-> n,
                  delays |-> {P}, fail |-> FALSE, fires |-> MaxFires, slowcb |-> TRUE,
                  sops |-> 0]
        /\ boot = n
        /\ now = n
        /\ tfn = [r \in Timers |-> IF r = 1 THEN 1 ELSE NULL]
        /\ when = [r \in Timers |-> IF r = 1 THEN w ELSE 0]
        /\ period = [r \in Timers |-> IF r = 1 THEN P ELSE 0]
        /\ flags = [r \in Timers |->
                       IF r = 1
                       THEN {GTIMER_FLG_SCHEDULED, GTIMER_FLG_PERIODIC}
                                \cup (IF jabbed THEN {GTIMER_FLG_JABBED} ELSE {})
                       ELSE {}]
        /\ next = [r \in Timers |-> IF r = 1 THEN 1 ELSE NULL]
        /\ prev = [r \in Timers |-> IF r = 1 THEN 1 ELSE NULL]
        /\ pTimerHead = 1
        /\ nxtTimeout = 2 ^ TickBits - 1
        /\ lastTime = L
        /\ mutex = "free"
        /\ hThread = 1
        /\ waitsem = 0
        /\ wpc = "enter"
        /\ wtimeout = 0
        /\ tm = 0
        /\ pt = NULL
        /\ fn = NULL
        /\ ops = 1
        /\ fires = [r \in Timers |-> 0]
        /\ cbStop = [r \in Timers |-> "no"]
        /\ armed = [r \in Timers |-> IF r = 1 THEN "periodic" ELSE "no"]
        /\ InitThreads

NextAdvance ==
    \/ WorkerWake
    \/ WorkerEnter
    \/ WorkerFire
    \/ WorkerCall
    \/ WorkerIdle
    \/ WorkerCallbackReturn
    \/ Tick

SpecAdvance == InitAdvance /\ [][NextAdvance]_vars

\* The scan takes the callback of r, a periodic record with a finite period
\* other than zero.
FiresPeriodic(r) ==
    /\ WorkerFire
    /\ pt' = r
    /\ GTIMER_FLG_PERIODIC \in flags[r]
    /\ GTIMER_FLG_INFINITE \notin flags[r]
    /\ period[r] # TIME_IMMEDIATE

\* Nothing wraps: the wake time is not after the current tick and the current
\* tick plus the period is within the range of the counter.
NoWrap(r) == when[r] <= tm /\ tm + period[r] < wrap

\* C26 (as stated): the firing of a due periodic record adds
\* period * ceil((now + period - when) / period) to its wake time.
C26_AdvanceByCeiling ==
    [][\A r \in Timers :
          (FiresPeriodic(r) /\ NoWrap(r)) =>
              when'[r] - when[r] =
                  period[r] * ((tm + period[r] - when[r] + period[r] - 1) \div period[r])]_vars

\* C26 (amended): the firing of a due periodic record adds
\* period * floor((now + period - when) / period) to its wake time, computed
\* in the unsigned arithmetic of the tick counter; where nothing wraps this is
\* period * (1 + floor((now - when) / period)).
C26_AdvanceByFloor ==
    [][\A r \in Timers :
          FiresPeriodic(r) =>
              /\ Sub(when'[r], when[r]) =
                    Mul(period[r], Sub(Add(tm, period[r]), when[r]) \div period[r])
              /\ NoWrap(r) =>
                    when'[r] - when[r] = period[r] * (1 + (tm - when[r]) \div period[r])]_vars

\* A periodic record has fired at a tick that is not a whole number of
\* periods after its wake time: its new wake time is less than a period away.
C26_Witness ==
    /\ wpc = "call"
    /\ pt # NULL
    /\ GTIMER_FLG_PERIODIC \in flags[pt]
    /\ period[pt] > 1
    /\ when[pt] > tm
    /\ when[pt] - tm < period[pt]
    /\ fires[pt] = 1

\* C27: after a periodic record with a finite period other than zero fires
\* because its wake time fell in the window [lastTime, now], its new wake time
\* is strictly after now and at most now + period, it differs from the old one
\* by a positive whole multiple of the period, and it is outside the window of
\* that scan: the record fires once, not once per missed period.
C27_AdvanceAbsorbsSkippedPeriods ==
    [][\A r \in Timers :
          (/\ FiresPeriodic(r)
           /\ GTIMER_FLG_JABBED \notin flags[r]
           /\ TimeIsWithin(when[r], lastTime, tm)) =>
              /\ Sub(when'[r], tm) > 0
              /\ Sub(when'[r], tm) <= period[r]
              /\ Sub(when'[r], when[r]) > 0
              /\ Sub(when'[r], when[r]) % period[r] = 0
              /\ ~TimeIsWithin(when'[r], lastTime, tm)]_vars

(***************************************************************************)
(* The window test.                                                        *)
(***************************************************************************)
\* C28: TimeIsWithin(x, start, end) is true exactly when x lies in the
\* circular closed interval from start to end of the tick counter, that is
\* when (x - start) mod 2^w <= (end - start) mod 2^w; and a scan of a record
\* that is neither jabbed nor infinite takes it as due exactly in that case,
\* for every wake time, time of the last scan and current tick.
C28_TimeIsWithinIsCircular ==
    /\ \A r \in Timers :
          TimeIsWithin(when[r], lastTime, tm)
              <=> ((when[r] - lastTime) % wrap <= (tm - lastTime) % wrap)
    /\ (/\ wpc = "scan"
        /\ List = <<1>>
        /\ flags[1] \cap {GTIMER_FLG_JABBED, GTIMER_FLG_INFINITE} = {}) =>
           (ScanList.kind = "due"
               <=> ((when[1] - lastTime) % wrap <= (tm - lastTime) % wrap))

\* The scan finds a record due whose wake time lies in a window that spans
\* the wrap of the counter.
C28_Witness ==
    /\ wpc = "scan"
    /\ tm < lastTime
    /\ when[1] <= tm
    /\ GTIMER_FLG_JABBED \notin flags[1]
    /\ ScanList.kind = "due"

(***************************************************************************)
(* The order of firing.                                                    *)
(***************************************************************************)
\* C29: the record whose callback a scan takes is the first due record of the
\* list, counted from pTimerHead.  The firing of a record that is re-armed
\* leaves the list as it is (the record keeps its place), and the firing of a
\* record that is not re-armed takes only that record out, so that the records
\* due at the same scan are found, in their order of insertion, by the scans
\* that follow.
C29_FiresFirstDueInListOrder ==
    [][WorkerFire =>
          /\ \E i \in 1..Len(List) :
                /\ List[i] = pt'
                /\ IsDue(pt')
                /\ \A j \in 1..(i - 1) : ~IsDue(List[j])
          /\ IF GTIMER_FLG_SCHEDULED \in flags'[pt']
             THEN List' = List
             ELSE List' = Without(List, pt')]_vars

(***************************************************************************)
(* The end of a scan.                                                      *)
(***************************************************************************)
\* The least element of a non-empty set of numbers.
Least(S) == CHOOSE x \in S : \A y \in S : x <= y

\* C30: when a scan ends with no record due, nxtTimeout is the least of
\* when - now over the scheduled records without the infinite flag, or
\* TIME_INFINITE when there is none, and lastTime is the now of that scan; a
\* scan that takes a callback leaves lastTime as it is.
C30_IdleScanSetsTimeout ==
    [][/\ WorkerIdle =>
             /\ nxtTimeout' =
                   Least({Sub(when[r], tm) :
                             r \in {x \in Scheduled : GTIMER_FLG_INFINITE \notin flags[x]}}
                         \cup {TIME_INFINITE})
             /\ lastTime' = tm
       /\ WorkerFire => lastTime' = lastTime]_vars

(***************************************************************************)
(* gfxYield.                                                               *)
(***************************************************************************)
\* The step calls gfxYield: the application does, or the loop of
\* gfxThreadWait.
Yielded ==
    \/ ThreadYield
    \/ /\ ThreadWaitResume \/ \E t \in Threads : gfxThreadWait(t)
       /\ waitfor'[current] # NULL

\* C31: gfxYield passes every context of the dead queue to gfxFree and leaves
\* the dead queue empty, puts the caller at the tail of the ready queue and
\* resumes the head; when the ready queue was empty at the call the caller
\* itself is resumed.
C31_YieldDrainsAndRotates ==
    [][Yielded =>
          /\ deadQ' = <<>>
          /\ \A t \in Threads :
                InQ(deadQ, t) => (heap'[t] = "freed" /\ frees'[t] > frees[t])
          /\ IF readyQ = <<>>
             THEN current' = current /\ readyQ' = <<>>
             ELSE current' = Head(readyQ) /\ readyQ' = Append(Tail(readyQ), current)]_vars

\* The main context, alone, has yielded and is running again; the yield freed
\* a context that had exited without being waited for.
C31_Witness ==
    /\ current = MainThread
    /\ readyQ = <<>>
    /\ deadQ = <<>>
    /\ joined = {}
    /\ \E t \in Threads : heap[t] = "freed" /\ frees[t] = 1

(***************************************************************************)
(* The worker context, with gfxThreadCreate failing at will.               *)
(***************************************************************************)
InitLazy ==
    InitEngine([wrap |-> 2 ^ TickBits, recs |-> MaxRecs, ops |-> MaxOps - 1, ticks |-> MaxTicks,
                boot |-> 0, delays |-> {TIME_IMMEDIATE, MaxDelay}, fail |-> TRUE,
                fires |-> MaxFires, slowcb |-> TRUE, sops |-> 0])

SpecLazy == InitLazy /\ [][Next]_vars

\* The worker context exists.
WorkerExists == wpc # "none"

\* C32: a gtimerStart made while hThread is null creates the worker context
\* if gfxThreadCreate succeeds, and otherwise leaves hThread null, so that the
\* next gtimerStart tries again; a gtimerStart made while hThread is set, and
\* every other step, creates no worker, so the first gtimerStart whose
\* creation succeeds creates the only one; hThread is set exactly while the
\* worker exists; and the record started is scheduled and in the list whether
\* or not the creation succeeded.
C32_WorkerCreatedOnce ==
    [][/\ \A c \in Callers, r \in Records, periodic \in BOOLEAN, ms \in Delays,
             created \in BOOLEAN :
             gtimerStart(c, r, periodic, ms, created) =>
                 /\ InList(r)'
                 /\ GTIMER_FLG_SCHEDULED \in flags'[r]
                 /\ IF hThread # 0
                    THEN hThread' = hThread /\ wpc' = wpc
                    ELSE IF created
                         THEN hThread' # 0 /\ ~WorkerExists /\ WorkerExists'
                         ELSE hThread' = 0 /\ ~WorkerExists'
       /\ (~WorkerExists /\ WorkerExists') => (hThread = 0 /\ hThread' # 0)
       /\ WorkerExists => WorkerExists'
       /\ WorkerExists' <=> hThread' # 0]_vars

\* Two gtimerStart calls have been made on two records and the one worker
\* they started is running a callback.
C32_Witness ==
    /\ wpc = "callback"
    /\ ops = 2
    /\ tfn[1] # NULL /\ tfn[2] # NULL
    /\ hThread # 0
    /\ fires[1] = 1

(***************************************************************************)
(* Waiting for a context, with no bound on the number of steps.  The main  *)
(* context creates NThreads contexts, the first of which is the target,    *)
(* may yield, and calls gfxThreadWait(target) once; each created context   *)
(* yields any number of times and may exit.  Whenever a context is running *)
(* it eventually goes on, and the target eventually calls gfxThreadExit.   *)
(***************************************************************************)
InitJoin ==
    InitEngine([wrap |-> 2 ^ TickBits, recs |-> 0, ops |-> 0, ticks |-> 0, boot |-> 0,
                delays |-> {}, fail |-> FALSE, fires |-> 0, slowcb |-> FALSE,
                sops |-> -1])

\* The first context the main context creates.
Target == MainThread + 1

\* The main context creates the contexts, with a stack of the caller's or an
\* allocated one, before anything else.
JoinCreate ==
    /\ current = MainThread
    /\ ~AllCreated
    /\ \E stackarea \in BOOLEAN : gfxThreadCreate(stackarea, TRUE)

\* A gfxYield of the main context before it waits or after the wait returned.
JoinMainYield ==
    /\ current = MainThread
    /\ AllCreated
    /\ ThreadYield

\* The main context calls gfxThreadWait(target), once.
JoinWait ==
    /\ current = MainThread
    /\ AllCreated
    /\ Target \notin joined
    /\ gfxThreadWait(Target)

JoinYield(t) ==
    /\ InThread(t)
    /\ ThreadYield

\* The thread function of t returns.
JoinExit(t) ==
    /\ InThread(t)
    /\ \E ret \in Values : gfxThreadExit(ret)

NextJoin ==
    \/ JoinCreate
    \/ JoinMainYield
    \/ JoinWait
    \/ ThreadWaitResume
    \/ \E t \in Created : JoinYield(t)
    \/ \E t \in Created : JoinExit(t)

SpecJoin ==
    /\ InitJoin
    /\ [][NextJoin]_vars
    /\ WF_vars(NextJoin)
    /\ SF_vars(JoinExit(Target))

\* gfxThreadWait(target) has been called; it has returned to its caller.
WaitCalled == Target \in joined
WaitReturned == Target \in joined /\ waitfor[MainThread] = NULL

\* C33: once the main context has called gfxThreadWait(target), the call
\* eventually returns, whether the target had exited before the call or
\* exits after it, provided every running context goes on and the target
\* eventually exits.
C33_WaitEventuallyReturns == WaitCalled ~> WaitReturned

====
